---- MODULE Spec2Model ----
(***************************************************************************)
(* Model of the image preprocessing stages of helper.py (to_grayscale,     *)
(* binary_threshold, bilinear_filter, bicubic_filter), of                  *)
(* get_text_from_image and of app.py's project().                          *)
(*                                                                         *)
(* Python floats are IEEE-754 binary64.  The stages truncate float results *)
(* with int(), so the last bit of a sum decides a pixel value; the model   *)
(* therefore carries floats exactly: a float is [s, m, e], standing for    *)
(* s * m * 2^e with m an arbitrary-size natural (a little-endian sequence  *)
(* of limbs in base 2^14, because TLC integers are 32 bit), and every      *)
(* arithmetic operation rounds its exact result to 53 significant bits,    *)
(* ties to even.  Overflow and subnormals cannot occur in the ranges used. *)
(***************************************************************************)
EXTENDS Integers, Sequences, FiniteSets, TLC

----------------------------------------------------------------------------
(* Arbitrary-size naturals.                                                *)

LimbBits == 14
Base == 2^LimbBits

\* Limb i of a (limbs are numbered from 1, the least significant), 0 beyond.
Limb(a, i) == IF 1 <= i /\ i <= Len(a) THEN a[i] ELSE 0

\* a without its leading (most significant) zero limbs.
RECURSIVE BTrim(_)
BTrim(a) ==
    IF a = <<>> THEN <<>>
    ELSE IF a[Len(a)] # 0 THEN a
    ELSE BTrim(SubSeq(a, 1, Len(a) - 1))

\* For 0 <= n < 2^31.
BFromInt(n) == IF n = 0 THEN <<>>
               ELSE IF n < Base THEN <<n>>
               ELSE IF n < Base * Base THEN <<n % Base, n \div Base>>
               ELSE <<n % Base, (n \div Base) % Base, n \div (Base * Base)>>

\* Only for values below 2^28.
BToInt(a) == IF a = <<>> THEN 0
             ELSE IF Len(a) = 1 THEN a[1]
             ELSE a[1] + Base * a[2]

RECURSIVE BAddC(_, _, _, _)
BAddC(a, b, i, c) ==
    IF i > Len(a) /\ i > Len(b) THEN (IF c = 0 THEN <<>> ELSE <<c>>)
    ELSE LET t == Limb(a, i) + Limb(b, i) + c
         IN  <<t % Base>> \o BAddC(a, b, i + 1, t \div Base)

BAdd(a, b) == BAddC(a, b, 1, 0)

\* a - b for a >= b.
RECURSIVE BSubC(_, _, _, _)
BSubC(a, b, i, c) ==
    IF i > Len(a) THEN <<>>
    ELSE LET t == a[i] - Limb(b, i) - c
         IN  <<IF t < 0 THEN t + Base ELSE t>>
               \o BSubC(a, b, i + 1, IF t < 0 THEN 1 ELSE 0)

BSub(a, b) == BTrim(BSubC(a, b, 1, 0))

\* -1, 0, 1 as a < b, a = b, a > b (both without leading zero limbs).
RECURSIVE BCmpFrom(_, _, _)
BCmpFrom(a, b, i) ==
    IF i = 0 THEN 0
    ELSE IF a[i] < b[i] THEN -1
    ELSE IF a[i] > b[i] THEN 1
    ELSE BCmpFrom(a, b, i - 1)

BCmp(a, b) == IF Len(a) < Len(b) THEN -1
              ELSE IF Len(a) > Len(b) THEN 1
              ELSE BCmpFrom(a, b, Len(a))

\* a * k + c for 0 <= k < Base.
RECURSIVE BMulSmallC(_, _, _, _)
BMulSmallC(a, k, i, c) ==
    IF i > Len(a) THEN (IF c = 0 THEN <<>> ELSE <<c>>)
    ELSE LET t == a[i] * k + c
         IN  <<t % Base>> \o BMulSmallC(a, k, i + 1, t \div Base)

BMulSmall(a, k) == IF k = 0 THEN <<>> ELSE BMulSmallC(a, k, 1, 0)

RECURSIVE BMulFrom(_, _, _)
BMulFrom(a, b, i) ==
    IF i > Len(b) THEN <<>>
    ELSE BAdd(BMulSmall(a, b[i]),
              IF i = Len(b) THEN <<>> ELSE <<0>> \o BMulFrom(a, b, i + 1))

BMul(a, b) ==
    IF a = <<>> \/ b = <<>> THEN <<>>
    ELSE IF Len(a) = 1 /\ Len(b) = 1 THEN BFromInt(a[1] * b[1])
    ELSE IF Len(a) < Len(b) THEN BMulFrom(b, a, 1)
    ELSE BMulFrom(a, b, 1)

\* <<quotient, remainder>> of a by k, 0 < k < Base.
RECURSIVE BDivSmallFrom(_, _, _, _)
BDivSmallFrom(a, k, i, r) ==
    IF i = 0 THEN <<<<>>, r>>
    ELSE LET t    == r * Base + a[i]
             rest == BDivSmallFrom(a, k, i - 1, t % k)
         IN  <<rest[1] \o <<t \div k>>, rest[2]>>

BDivSmall(a, k) == LET qr == BDivSmallFrom(a, k, Len(a), 0)
                   IN  <<BTrim(qr[1]), qr[2]>>

RECURSIVE Zeros(_)
Zeros(n) == IF n = 0 THEN <<>> ELSE <<0>> \o Zeros(n - 1)

BShl(a, n) == IF a = <<>> THEN <<>>
              ELSE IF n = 0 THEN a
              ELSE Zeros(n \div LimbBits) \o BMulSmall(a, 2^(n % LimbBits))

\* Limb i of a shifted right by n bits.
ShrLimb(a, n, i) ==
    LET drop == n \div LimbBits
        r    == n % LimbBits
    IN  (Limb(a, drop + i) \div 2^r)
          + ((Limb(a, drop + i + 1) % 2^r) * 2^(LimbBits - r))

RECURSIVE BShrFrom(_, _, _)
BShrFrom(a, n, i) ==
    IF i + n \div LimbBits > Len(a) THEN <<>>
    ELSE <<ShrLimb(a, n, i)>> \o BShrFrom(a, n, i + 1)

BShr(a, n) == BTrim(BShrFrom(a, n, 1))

\* Number of bits of 0 <= n < 2^15.
IntBitLen(n) ==
    IF n < 128
    THEN IF n < 8 THEN (IF n < 2 THEN n ELSE IF n < 4 THEN 2 ELSE 3)
         ELSE IF n < 32 THEN (IF n < 16 THEN 4 ELSE 5)
         ELSE IF n < 64 THEN 6 ELSE 7
    ELSE IF n < 2048
    THEN IF n < 512 THEN (IF n < 256 THEN 8 ELSE 9)
         ELSE IF n < 1024 THEN 10 ELSE 11
    ELSE IF n < 8192 THEN (IF n < 4096 THEN 12 ELSE 13)
    ELSE IF n < 16384 THEN 14 ELSE 15

BBitLen(a) == IF a = <<>> THEN 0
              ELSE (Len(a) - 1) * LimbBits + IntBitLen(a[Len(a)])

\* Bit n (numbered from 0) of a.
BBit(a, n) == (Limb(a, n \div LimbBits + 1) \div 2^(n % LimbBits)) % 2

\* Whether any of the n low bits of a is set.
BLowBits(a, n) ==
    \/ \E i \in 1 .. n \div LimbBits : Limb(a, i) # 0
    \/ Limb(a, n \div LimbBits + 1) % 2^(n % LimbBits) # 0

----------------------------------------------------------------------------
(* IEEE-754 binary64 values and operations.                                *)

MantBits == 53

FZero == [s |-> 1, m |-> <<>>, e |-> 0]

\* Drop whole zero limbs at the low end (the value is unchanged).
RECURSIVE FPack(_, _, _)
FPack(s, m, e) == IF m = <<>> THEN FZero
                  ELSE IF m[1] = 0 THEN FPack(s, Tail(m), e + LimbBits)
                  ELSE [s |-> s, m |-> m, e |-> e]

\* s * m * 2^e with the k low bits of m dropped, ties to even: the kept
\* part is incremented when the highest dropped bit is set and either a
\* lower dropped bit is set or the kept part is odd.
FRoundTo(s, m, e, k) ==
    IF k <= 0 THEN FPack(s, m, e)
    ELSE IF BBit(m, k - 1) = 1 /\ (BLowBits(m, k - 1) \/ BBit(m, k) = 1)
    THEN FPack(s, BAdd(BShr(m, k), <<1>>), e + k)
    ELSE FPack(s, BShr(m, k), e + k)

\* Round s * m * 2^e to 53 significant bits.
FRound(s, m, e) == FRoundTo(s, m, e, BBitLen(m) - MantBits)

FInt(n) == IF n < 0 THEN [s |-> -1, m |-> BFromInt(-n), e |-> 0]
           ELSE FPack(1, BFromInt(n), 0)

FNeg(a) == IF a.m = <<>> THEN a ELSE [a EXCEPT !.s = -a.s]

FAbs(a) == [a EXCEPT !.s = 1]

FMul(a, b) == IF a.m = <<>> \/ b.m = <<>> THEN FZero
              ELSE FRound(a.s * b.s, BMul(a.m, b.m), a.e + b.e)

Min(a, b) == IF a < b THEN a ELSE b

\* sa * am * 2^e + sb * bm * 2^e, rounded once.
FAddAligned(sa, am, sb, bm, e) ==
    FRound(IF sa = sb \/ BCmp(am, bm) >= 0 THEN sa ELSE sb,
           IF sa = sb THEN BAdd(am, bm)
           ELSE IF BCmp(am, bm) >= 0 THEN BSub(am, bm)
           ELSE BSub(bm, am),
           e)

\* The exact sum of the significands aligned at the smaller exponent,
\* rounded once.
FAdd(a, b) ==
    IF a.m = <<>> THEN b
    ELSE IF b.m = <<>> THEN a
    ELSE FAddAligned(a.s, BShl(a.m, a.e - Min(a.e, b.e)),
                     b.s, BShl(b.m, b.e - Min(a.e, b.e)), Min(a.e, b.e))

FSub(a, b) == FAdd(a, FNeg(b))

FSign(a) == IF a.m = <<>> THEN 0 ELSE a.s

\* -1, 0, 1 as a < b, a = b, a > b.
FCmp(a, b) == FSign(FSub(a, b))

\* a / b, correctly rounded, for a divisor whose significand fits one limb.
\* The quotient is taken to at least 56 bits and the remainder kept as a
\* sticky low bit, so one rounding gives the nearest float.
FDiv(a, b) ==
    IF a.m = <<>> THEN FZero
    ELSE LET k  == 5 * LimbBits
             qr == BDivSmall(BShl(a.m, k), b.m[1])
         IN  FRound(a.s * b.s,
                    BAdd(BShl(qr[1], 1), IF qr[2] = 0 THEN <<>> ELSE <<1>>),
                    a.e - b.e - k - 1)

\* a ** 2 and a ** 3 (pow): the exact power, rounded once.
FPow2(a) == FMul(a, a)

FPow3(a) == IF a.m = <<>> THEN FZero
            ELSE FRound(a.s, BMul(a.m, BMul(a.m, a.m)), 3 * a.e)

\* int(a): truncation toward zero.  The results here are below 2^28.
FTrunc(a) ==
    IF a.m = <<>> THEN 0
    ELSE IF a.e >= 0 THEN a.s * BToInt(BShl(a.m, a.e))
    ELSE a.s * BToInt(BShr(a.m, -a.e))

----------------------------------------------------------------------------
(* Images.  An image object is [mode, w, h, px]: px maps every coordinate  *)
(* <<x, y>> with 0 <= x < w and 0 <= y < h to the tuple of the pixel's band *)
(* values: <<r, g, b>> for mode "RGB", <<v>> for the single-band modes "L" *)
(* and "1", whose pixel access yields the integer v itself.                *)
(* Objects live in a heap (a sequence); a reference is an index into it,   *)
(* and None is the reference 0.                                            *)

None == 0

Coords(w, h) == (0 .. w - 1) \X (0 .. h - 1)

NewImage(mode, w, h, pixel) ==
    [mode |-> mode, w |-> w, h |-> h, px |-> [p \in Coords(w, h) |-> pixel]]

IsRGB(img) == img.mode = "RGB"

HasPixels(img) == img.w > 0 /\ img.h > 0

\* What a stage call leaves behind: the heap, the returned reference, the
\* exception that ended the call ("none" if it returned), and the images
\* the call built locally without returning them (a sequence).
Outcome(heap, ret, exc, local) ==
    [heap |-> heap, ret |-> ret, exc |-> exc, local |-> local]

Raise(heap, exc) == Outcome(heap, None, exc, <<>>)

----------------------------------------------------------------------------
(* to_grayscale                                                            *)

C2989 == [s |-> 1, m |-> <<4037, 7366, 4823, 1224>>, e |-> -54]
C5870 == [s |-> 1, m |-> <<2097, 12976, 1441, 601>>, e |-> -52]
C1140 == [s |-> 1, m |-> <<14025, 16121, 12713, 1867>>, e |-> -56]

\* The luminance rounded to the nearest integer instead of truncated.
GrayValueRounded(red, green, blue) ==
    FTrunc(FAdd(FAdd(FAdd(FMul(C2989, FInt(red)), FMul(C5870, FInt(green))),
                     FMul(C1140, FInt(blue))),
                [s |-> 1, m |-> <<1>>, e |-> -1]))

\* int(0.2989 * red + 0.5870 * green + 0.1140 * blue)
GrayValue(red, green, blue) ==
    LET red_gray   == FMul(C2989, FInt(red))
        green_gray == FMul(C5870, FInt(green))
        blue_gray  == FMul(C1140, FInt(blue))
    IN  FTrunc(FAdd(FAdd(red_gray, green_gray), blue_gray))

\* image_data[row, col] = (gray, gray, gray)
GrayTriple(gray) == <<gray, gray, gray>>

GrayPixel(pixel) == GrayTriple(GrayValue(pixel[1], pixel[2], pixel[3]))

\* Image.convert('L'): a new single-band image; for an RGB source Pillow
\* stores (R * 19595 + G * 38470 + B * 7471 + 0x8000) >> 16.
ConvertL(img) ==
    [mode |-> "L", w |-> img.w, h |-> img.h,
     px |-> [p \in Coords(img.w, img.h) |->
               IF IsRGB(img)
               THEN <<(img.px[p][1] * 19595 + img.px[p][2] * 38470
                         + img.px[p][3] * 7471 + 32768) \div 65536>>
               ELSE img.px[p]]]

\* The from-scratch branch writes every pixel of the image it was given
\* and returns that same object.  Unpacking the pixel of a single-band
\* image (an int) into red, green, blue raises TypeError at the first pixel.
ToGrayscale(heap, image, fast) ==
    IF image = None THEN Raise(heap, "AttributeError")
    ELSE IF fast
    THEN Outcome(Append(heap, ConvertL(heap[image])), Len(heap) + 1, "none", <<>>)
    ELSE IF HasPixels(heap[image]) /\ ~IsRGB(heap[image])
    THEN Raise(heap, "TypeError")
    ELSE Outcome([heap EXCEPT ![image].px =
                     [p \in DOMAIN @ |-> GrayPixel(@[p])]],
                 image, "none", <<>>)

----------------------------------------------------------------------------
(* binary_threshold                                                        *)

DefaultThreshold == 128

ThresholdValue(gray_value, threshold) ==
    IF gray_value < threshold THEN 0 ELSE 255

\* Image.point(f, '1') on a single-band image (the library documents the
\* mode argument for single-band sources only): a new image of mode "1".
ThresholdFast(heap, image, threshold) ==
    Outcome(Append(heap,
              [mode |-> "1", w |-> heap[image].w, h |-> heap[image].h,
               px |-> [p \in Coords(heap[image].w, heap[image].h) |->
                         <<ThresholdValue(heap[image].px[p][1], threshold)>>]]),
            Len(heap) + 1, "none", <<>>)

\* The from-scratch branch reads image_data[row, col][0], which raises
\* TypeError on the int pixel of a single-band image, and otherwise
\* overwrites the pixel in place.
BinaryThreshold(heap, image, threshold, fast) ==
    IF image = None THEN Raise(heap, "AttributeError")
    ELSE IF fast THEN ThresholdFast(heap, image, threshold)
    ELSE IF HasPixels(heap[image]) /\ ~IsRGB(heap[image])
    THEN Raise(heap, "TypeError")
    ELSE Outcome([heap EXCEPT ![image].px =
                     [p \in DOMAIN @ |->
                        LET v == ThresholdValue(@[p][1], threshold)
                        IN  <<v, v, v>>]],
                 image, "none", <<>>)

----------------------------------------------------------------------------
(* bilinear_filter                                                         *)

FOne == FInt(1)

\* int(original_width * scale_factor)
ScaledSize(size, scale_factor) == FTrunc(FMul(FInt(size), scale_factor))

\* int((1-(x-x1))*(1-(y-y1))*tl + (x-x1)*(1-(y-y1))*tr
\*       + (1-(x-x1))*(y-y1)*bl + (x-x1)*(y-y1)*br)
\* with Python's left-to-right evaluation order; ndx is 1 - dx, ndy 1 - dy.
BilinearSum(ndx, ndy, dx, dy, tl, tr, bl, br) ==
    FTrunc(FAdd(FAdd(FAdd(FMul(FMul(ndx, ndy), FInt(tl)),
                          FMul(FMul(dx, ndy), FInt(tr))),
                     FMul(FMul(ndx, dy), FInt(bl))),
                FMul(FMul(dx, dy), FInt(br))))

BilinearValue(dx, dy, tl, tr, bl, br) ==
    BilinearSum(FSub(FOne, dx), FSub(FOne, dy), dx, dy, tl, tr, bl, br)

\* The three int(...) channel expressions, with dx = x - x1 and dy = y - y1
BilinearBlend(dx, dy, top_left, top_right, bottom_left, bottom_right) ==
    <<BilinearValue(dx, dy, top_left[1], top_right[1],
                    bottom_left[1], bottom_right[1]),
      BilinearValue(dx, dy, top_left[2], top_right[2],
                    bottom_left[2], bottom_right[2]),
      BilinearValue(dx, dy, top_left[3], top_right[3],
                    bottom_left[3], bottom_right[3])>>

\* x2, y2 = min(x1 + 1, original_width - 1), min(y1 + 1, original_height - 1)
BilinearCorners(img, x, y, x1, y1) ==
    BilinearBlend(FSub(x, FInt(x1)), FSub(y, FInt(y1)),
                  img.px[<<x1, y1>>],
                  img.px[<<Min(x1 + 1, img.w - 1), y1>>],
                  img.px[<<x1, Min(y1 + 1, img.h - 1)>>],
                  img.px[<<Min(x1 + 1, img.w - 1), Min(y1 + 1, img.h - 1)>>])

\* x1, y1 = int(x), int(y)
BilinearAt(img, x, y) == BilinearCorners(img, x, y, FTrunc(x), FTrunc(y))

\* x, y = row / scale_factor, col / scale_factor
BilinearPixel(img, scale_factor, row, col) ==
    BilinearAt(img, FDiv(FInt(row), scale_factor),
               FDiv(FInt(col), scale_factor))

\* Image.thumbnail(size, resample) shrinks the image in place when it is
\* larger than size (never here: images are far smaller than 300 x 300)
\* and returns None.
ThumbnailSize == 300

Thumbnail(heap, image) ==
    IF image = None THEN Raise(heap, "AttributeError")
    ELSE Outcome(heap, None, "none", <<>>)

\* resized_img = Image.new('RGB', (new_width, new_height)) and the loop
\* that fills it; then return image, the object the call was given.
\* Image.new raises ValueError for a negative size; indexing the int pixel
\* of a single-band image raises TypeError.
BilinearResize(heap, image, scale_factor, new_width, new_height) ==
    IF new_width < 0 \/ new_height < 0 THEN Raise(heap, "ValueError")
    ELSE IF new_width > 0 /\ new_height > 0 /\ ~IsRGB(heap[image])
    THEN Raise(heap, "TypeError")
    ELSE Outcome(heap, image, "none",
           <<[mode |-> "RGB", w |-> new_width, h |-> new_height,
              px |-> [p \in Coords(new_width, new_height) |->
                        BilinearPixel(heap[image], scale_factor, p[1], p[2])]]>>)

BilinearFilter(heap, image, scale_factor, fast) ==
    IF fast THEN Thumbnail(heap, image)
    ELSE IF image = None THEN Raise(heap, "AttributeError")
    ELSE BilinearResize(heap, image, scale_factor,
                        ScaledSize(heap[image].w, scale_factor),
                        ScaledSize(heap[image].h, scale_factor))

----------------------------------------------------------------------------
(* bicubic_filter                                                          *)

FMake(s, m, e) == [s |-> s, m |-> <<m>>, e |-> e]

cubic_factor == FMake(-1, 1, -1)

\* The kernel without the constant term of its inner piece.
cubicNoConstant(pixel) ==
    IF FCmp(FAbs(pixel), FOne) <= 0
    THEN FSub(FMul(FAdd(cubic_factor, FInt(2)), FPow3(FAbs(pixel))),
              FMul(FAdd(cubic_factor, FInt(3)), FPow2(FAbs(pixel))))
    ELSE FZero

\* cubic(pixel), with Python's operator precedence and evaluation order.
cubic(pixel) ==
    LET a  == FAbs(pixel)
        c1 == FCmp(a, FOne)
    IN  IF c1 <= 0
        THEN FAdd(FSub(FMul(FAdd(cubic_factor, FInt(2)), FPow3(a)),
                       FMul(FAdd(cubic_factor, FInt(3)), FPow2(a))),
                  FOne)
        ELSE IF FCmp(a, FInt(2)) < 0
        THEN FSub(FAdd(FSub(FMul(cubic_factor, FPow3(a)),
                            FMul(FMul(FInt(5), cubic_factor), FPow2(a))),
                       FMul(FMul(FInt(8), cubic_factor), a)),
                  FMul(FInt(4), cubic_factor))
        ELSE FZero

\* cubic(offset - index) for index = from .. 3, where offset is
\* scaled - scaled_iter.
RECURSIVE WeightsFrom(_, _)
WeightsFrom(offset, from) ==
    IF from > 3 THEN <<>>
    ELSE <<cubic(FSub(offset, FInt(from)))>> \o WeightsFrom(offset, from + 1)

WeightsAt(scaled) == WeightsFrom(FSub(scaled, FInt(FTrunc(scaled) - 1)), 0)

\* The four kernel weights cubic(scaled - scaled_iter - index), index 0..3,
\* of one destination row or column (a tuple: element index + 1).
Weights(index, scale_factor) == WeightsAt(FDiv(FInt(index), scale_factor))

\* Weights of the destination indexes 0 .. n - 1 (element index + 1).
RECURSIVE WeightTable(_, _)
WeightTable(n, scale_factor) ==
    IF n = 0 THEN <<>>
    ELSE Append(WeightTable(n - 1, scale_factor), Weights(n - 1, scale_factor))

\* First source coordinate of the 4 x 4 neighbourhood: int(scaled) - 1.
ScaledIter(index, scale_factor) ==
    FTrunc(FDiv(FInt(index), scale_factor)) - 1

\* contributions[x_index, y_index]: the source pixel as three floats, a
\* single-band value broadcast to all three, zeros outside the image.
Contribution(img, x_val, y_val) ==
    IF 0 <= x_val /\ x_val < img.w /\ 0 <= y_val /\ y_val < img.h
    THEN IF IsRGB(img) THEN img.px[<<x_val, y_val>>]
         ELSE <<img.px[<<x_val, y_val>>][1], img.px[<<x_val, y_val>>][1],
                img.px[<<x_val, y_val>>][1]>>
    ELSE <<0, 0, 0>>

\* No clipping at all.
ClipNone(v) == v

\* np.clip(v, 0, 255)
Clip(v) == IF FSign(v) < 0 THEN FZero
           ELSE IF FCmp(v, FInt(255)) > 0 THEN FInt(255)
           ELSE v

\* interpolated_pixel += contributions[x, y] * cubic(..) * cubic(..) over
\* x_index = 0..3 (outer) and y_index = 0..3 (inner), for one channel.
RECURSIVE BicubicSum(_, _, _, _, _, _, _, _)
BicubicSum(img, c, x0, y0, wx, wy, k, acc) ==
    IF k = 16 THEN acc
    ELSE LET x_index == k \div 4
             y_index == k % 4
             v == Contribution(img, x0 + x_index, y0 + y_index)[c]
         IN  BicubicSum(img, c, x0, y0, wx, wy, k + 1,
                        FAdd(acc, FMul(FMul(FInt(v), wx[x_index + 1]),
                                       wy[y_index + 1])))

\* The weighted sum of one channel before np.clip.
BicubicRaw(img, c, x0, y0, wx, wy) ==
    BicubicSum(img, c, x0, y0, wx, wy, 0, FZero)

BicubicPixel(img, x0, y0, wx, wy) ==
    <<FTrunc(Clip(BicubicRaw(img, 1, x0, y0, wx, wy))),
      FTrunc(Clip(BicubicRaw(img, 2, x0, y0, wx, wy))),
      FTrunc(Clip(BicubicRaw(img, 3, x0, y0, wx, wy)))>>

\* resized_img filled pixel by pixel; ws holds the kernel weights of every
\* destination row and column index.
BicubicFill(img, scale_factor, new_width, new_height, ws) ==
    [mode |-> "RGB", w |-> new_width, h |-> new_height,
     px |-> [p \in Coords(new_width, new_height) |->
               BicubicPixel(img, ScaledIter(p[1], scale_factor),
                            ScaledIter(p[2], scale_factor),
                            ws[p[1] + 1], ws[p[2] + 1])]]

BicubicSized(img, scale_factor, new_width, new_height) ==
    BicubicFill(img, scale_factor, new_width, new_height,
                WeightTable(IF new_width > new_height THEN new_width
                            ELSE new_height, scale_factor))

BicubicImage(img, scale_factor) ==
    BicubicSized(img, scale_factor, ScaledSize(img.w, scale_factor),
                 ScaledSize(img.h, scale_factor))

\* Image.new raises ValueError for a negative size.  The from-scratch
\* branch returns resized_img, a new object.
BicubicResize(heap, image, scale_factor, new_width, new_height) ==
    IF new_width < 0 \/ new_height < 0 THEN Raise(heap, "ValueError")
    ELSE Outcome(Append(heap, BicubicSized(heap[image], scale_factor,
                                           new_width, new_height)),
                 Len(heap) + 1, "none", <<>>)

\* The fast branch binds image to thumbnail's None and then reaches
\* return resized_img, a name only the other branch assigns.
BicubicFilter(heap, image, scale_factor, fast) ==
    IF fast
    THEN IF Thumbnail(heap, image).exc # "none" THEN Thumbnail(heap, image)
         ELSE Raise(heap, "UnboundLocalError")
    ELSE IF image = None THEN Raise(heap, "AttributeError")
    ELSE BicubicResize(heap, image, scale_factor,
                       ScaledSize(heap[image].w, scale_factor),
                       ScaledSize(heap[image].h, scale_factor))

----------------------------------------------------------------------------
(* State.                                                                  *)

VARIABLES
    heap,      \* the image objects
    last,      \* the latest stage call: arguments, heap before it, outcome
    calls,     \* number of stage calls made so far
    entry,     \* who drives the run: "calls", "project", "direct", "scenario"
    pc,        \* control point of project() / get_text_from_image()
    cur,       \* the reference held by get_text_from_image's variable image
    log,       \* the stage calls of the run so far, in order
    response,  \* what kind of response generate_content gave
    result,    \* how get_text_from_image ended
    speech     \* the argument get_speech_from_text was called with

vars == <<heap, last, calls, entry, pc, cur, log, response, result, speech>>

app == <<entry, pc, cur, log, response, result, speech>>

NoCall == [op |-> "none", image |-> None, threshold |-> 0, scale |-> FZero,
           fast |-> FALSE, before |-> <<>>, ret |-> None, exc |-> "none",
           local |-> <<>>]

CallRecord(op, image, threshold, scale, fast, before, o) ==
    [op |-> op, image |-> image, threshold |-> threshold, scale |-> scale,
     fast |-> fast, before |-> before, ret |-> o.ret, exc |-> o.exc,
     local |-> o.local]

NoResult == [kind |-> "none", value |-> "none"]

----------------------------------------------------------------------------
(* Bounded inputs.                                                         *)

MaxDim == 2
MaxCalls == 1

Black == <<0, 0, 0>>
White == <<255, 255, 255>>

\* 0.5870 * 72 + 0.1140 * 24 is exactly 45 in the reals.
Tinted == <<0, 72, 24>>
Violet == <<128, 0, 255>>

\* The pixels a, b of the input patterns.
Patterns == {<<White, White>>, <<White, Black>>, <<Tinted, Tinted>>,
             <<Violet, White>>}

\* A w x h image with pixel a where x + y is even and b elsewhere.
Checker(mode, w, h, a, b) ==
    [mode |-> mode, w |-> w, h |-> h,
     px |-> [p \in Coords(w, h) |-> IF (p[1] + p[2]) % 2 = 0 THEN a ELSE b]]

InputImages ==
    {Checker("RGB", w, h, ab[1], ab[2]) :
        w \in 0 .. MaxDim, h \in 0 .. MaxDim, ab \in Patterns}
    \cup {Checker("L", w, h, <<DefaultThreshold>>, <<255>>) :
            w \in 1 .. MaxDim, h \in 1 .. MaxDim}

Thresholds == {DefaultThreshold, DefaultThreshold + 1}

\* -1, 0, 0.75 and 2
Scales == {FInt(-1), FZero, FMake(1, 3, -2), FInt(2)}

Fits(img) == img.w <= MaxDim /\ img.h <= MaxDim

----------------------------------------------------------------------------
(* Stage calls on any live image, in any order.                            *)

InitCalls ==
    /\ heap \in {<<img>> : img \in InputImages}
    /\ last = NoCall
    /\ calls = 0
    /\ entry = "calls"
    /\ pc = "idle"
    /\ cur = None
    /\ log = <<>>
    /\ response = "none"
    /\ result = NoResult
    /\ speech = "none"

Called(op, image, threshold, scale, fast, o) ==
    /\ heap' = o.heap
    /\ last' = CallRecord(op, image, threshold, scale, fast, heap, o)
    /\ calls' = calls + 1
    /\ UNCHANGED app

CallToGrayscale ==
    /\ entry = "calls" /\ calls < MaxCalls
    /\ \E image \in 1 .. Len(heap), fast \in BOOLEAN :
         \E o \in {ToGrayscale(heap, image, fast)} :
            Called("to_grayscale", image, 0, FZero, fast, o)

CallBinaryThreshold ==
    /\ entry = "calls" /\ calls < MaxCalls
    /\ \E image \in 1 .. Len(heap), threshold \in Thresholds, fast \in BOOLEAN :
         /\ fast => ~IsRGB(heap[image])
         /\ \E o \in {BinaryThreshold(heap, image, threshold, fast)} :
               Called("binary_threshold", image, threshold, FZero, fast, o)

CallBilinearFilter ==
    /\ entry = "calls" /\ calls < MaxCalls
    /\ \E image \in 1 .. Len(heap), scale \in Scales, fast \in BOOLEAN :
         /\ Fits(heap[image])
         /\ \E o \in {BilinearFilter(heap, image, scale, fast)} :
               Called("bilinear_filter", image, 0, scale, fast, o)

CallBicubicFilter ==
    /\ entry = "calls" /\ calls < MaxCalls
    /\ \E image \in 1 .. Len(heap), scale \in Scales, fast \in BOOLEAN :
         /\ Fits(heap[image])
         /\ \E o \in {BicubicFilter(heap, image, scale, fast)} :
               Called("bicubic_filter", image, 0, scale, fast, o)

Next ==
    \/ CallToGrayscale
    \/ CallBinaryThreshold
    \/ CallBilinearFilter
    \/ CallBicubicFilter

Spec == InitCalls /\ [][Next]_vars

----------------------------------------------------------------------------
(* to_grayscale on single pixels over a wider range of colours.            *)

ChannelSamples == {0, 6, 10, 21, 24, 45, 72, 255}

InitGray ==
    /\ heap \in {<<NewImage("RGB", 1, 1, <<r, g, b>>)>> :
                    r \in ChannelSamples, g \in ChannelSamples,
                    b \in ChannelSamples}
    /\ last = NoCall
    /\ calls = 0
    /\ entry = "calls"
    /\ pc = "idle"
    /\ cur = None
    /\ log = <<>>
    /\ response = "none"
    /\ result = NoResult
    /\ speech = "none"

SpecGray == InitGray /\ [][CallToGrayscale]_vars

----------------------------------------------------------------------------
(* bicubic_filter on images of one colour that have interior pixels.       *)

MinInterior == 4
MaxUniformDim == 5

UniformColours == {White, Black, Tinted, <<1, 1, 1>>, <<200, 100, 7>>,
                   <<254, 128, 127>>}

\* 0.5, 0.75, 1 and 2
UniformScales == {FMake(1, 1, -1), FMake(1, 3, -2), FInt(1), FInt(2)}

InitUniform ==
    /\ heap \in {<<NewImage("RGB", w, h, c)>> :
                    w \in MinInterior .. MaxUniformDim,
                    h \in MinInterior .. MaxUniformDim, c \in UniformColours}
    /\ last = NoCall
    /\ calls = 0
    /\ entry = "calls"
    /\ pc = "idle"
    /\ cur = None
    /\ log = <<>>
    /\ response = "none"
    /\ result = NoResult
    /\ speech = "none"

ResampleUniform ==
    /\ last = NoCall
    /\ \E scale \in UniformScales :
         \E o \in {BicubicFilter(heap, 1, scale, FALSE)} :
            Called("bicubic_filter", 1, 0, scale, FALSE, o)

SpecUniform == InitUniform /\ [][ResampleUniform]_vars

----------------------------------------------------------------------------
(* project() and get_text_from_image().                                    *)

ScenarioDim == 4

PipelineImages ==
    {NewImage("RGB", w, h, c) :
        w \in 1 .. ScenarioDim, h \in 1 .. ScenarioDim, c \in {White, Tinted}}

Fallback == "Sorry I couldn Understand the Prescription"

\* What model.generate_content returned: a response whose .text is readable,
\* one whose .text raises while .parts[0] is readable, one where both raise.
Responses == {"text", "parts", "empty"}

\* entry "project": app.py's project(), which calls get_text_from_image(image)
\* entry "direct": get_text_from_image(image, fast = False)
\* entry "scenario": the four stages, each called with fast = False
InitPipeline ==
    /\ heap \in {<<img>> : img \in PipelineImages}
    /\ last = NoCall
    /\ calls = 0
    /\ entry \in {"project", "direct", "scenario"}
    /\ pc = "idle"
    /\ cur = None
    /\ log = <<>>
    /\ response = "none"
    /\ result = NoResult
    /\ speech = "none"

\* get_text_from_image calls the stages with their default fast = True.
StageFast == entry # "scenario"

StageRecord(op, o) ==
    [op |-> op, arg |-> cur,
     inp |-> IF cur = None THEN <<>> ELSE <<heap[cur]>>,
     ret |-> o.ret, exc |-> o.exc,
     out |-> IF o.exc # "none" \/ o.ret = None THEN <<>> ELSE <<o.heap[o.ret]>>]

\* image = stage(image, ...): an exception leaves get_text_from_image.
RunStage(op, o, after) ==
    /\ heap' = o.heap
    /\ log' = Append(log, StageRecord(op, o))
    /\ IF o.exc # "none"
       THEN /\ pc' = "raised"
            /\ result' = [kind |-> "raised", value |-> o.exc]
            /\ cur' = cur
       ELSE /\ pc' = after
            /\ result' = result
            /\ cur' = o.ret
    /\ UNCHANGED <<last, calls, entry, response, speech>>

\* project(): image = st.file_uploader(..); if image: get_text_from_image(image)
\* whose fast branch opens the image and goes straight to the OCR.
Start ==
    /\ pc = "idle" /\ entry # "calls"
    /\ \E uploaded \in BOOLEAN :
         /\ ~uploaded => entry = "project"
         /\ pc' = IF ~uploaded THEN "done"
                  ELSE IF entry = "project" THEN "ocr" ELSE "gray"
         /\ cur' = IF uploaded THEN 1 ELSE None
    /\ UNCHANGED <<heap, last, calls, entry, log, response, result, speech>>

StageGrayscale ==
    /\ pc = "gray"
    /\ \E o \in {ToGrayscale(heap, cur, StageFast)} :
          RunStage("to_grayscale", o, "threshold")

StageThreshold ==
    /\ pc = "threshold"
    /\ \E o \in {BinaryThreshold(heap, cur, DefaultThreshold, StageFast)} :
          RunStage("binary_threshold", o, "bilinear")

StageBilinear ==
    /\ pc = "bilinear"
    /\ \E o \in {BilinearFilter(heap, cur, FInt(2), StageFast)} :
          RunStage("bilinear_filter", o, "bicubic")

StageBicubic ==
    /\ pc = "bicubic"
    /\ \E o \in {BicubicFilter(heap, cur, FInt(2), StageFast)} :
          RunStage("bicubic_filter", o,
                   IF entry = "scenario" THEN "done" ELSE "ocr")

\* reader.readtext(..), the prompt, model.generate_content(prompt)
Ocr ==
    /\ pc = "ocr"
    /\ response' \in Responses
    /\ pc' = "respond"
    /\ UNCHANGED <<heap, last, calls, entry, cur, log, result, speech>>

\* try: return response.text
\* except: try: response.parts[0]          (its value is dropped)
\*         except: return 'Sorry I couldn Understand the Prescription'
Respond ==
    /\ pc = "respond"
    /\ result' = [kind |-> "returned",
                  value |-> IF response = "text" THEN "response.text"
                            ELSE IF response = "parts" THEN "None"
                            ELSE Fallback]
    /\ pc' = "returned"
    /\ UNCHANGED <<heap, last, calls, entry, cur, log, response, speech>>

\* st.write(text); get_speech_from_text(text): gTTS asserts text is not empty.
Speak ==
    /\ pc = "returned" /\ entry = "project"
    /\ speech' = result.value
    /\ pc' = IF result.value = "None" THEN "raised" ELSE "done"
    /\ UNCHANGED <<heap, last, calls, entry, cur, log, response, result>>

NextPipeline ==
    \/ Start
    \/ StageGrayscale
    \/ StageThreshold
    \/ StageBilinear
    \/ StageBicubic
    \/ Ocr
    \/ Respond
    \/ Speak

SpecPipeline == InitPipeline /\ [][NextPipeline]_vars

----------------------------------------------------------------------------
(* Properties of a single stage call (Spec, SpecGray).                     *)

\* The image handed to the latest call, as it was before the call.
Input == last.before[last.image]

FromScratch(op) == last.op = op /\ ~last.fast

PositiveScale == FSign(last.scale) > 0

\* floor(size * f) in integer arithmetic, f = m * 2^e with a one-limb m.
ExactScaled(size, f) ==
    IF f.e >= 0 THEN size * BToInt(f.m) * 2^f.e
    ELSE (size * BToInt(f.m)) \div 2^(-f.e)

\* C2: bilinear_filter in from-scratch mode, given a w x h image and a
\* scale factor f > 0, returns an image of floor(w * f) x floor(h * f)
\* pixels whose pixels are the bilinearly interpolated values.
C2_BilinearReturnsResized ==
    (FromScratch("bilinear_filter") /\ PositiveScale /\ IsRGB(Input)
       /\ HasPixels(Input))
    => /\ last.exc = "none"
       /\ last.ret # None
       /\ heap[last.ret].w = ExactScaled(Input.w, last.scale)
       /\ heap[last.ret].h = ExactScaled(Input.h, last.scale)
       /\ heap[last.ret].px = last.local[1].px

\* floor(0.2989 R + 0.5870 G + 0.1140 B) in integer arithmetic.
LumaNumerator(pixel) == 2989 * pixel[1] + 5870 * pixel[2] + 1140 * pixel[3]

ExactLuma(pixel) == LumaNumerator(pixel) \div 10000

\* C3 as stated: to_grayscale in from-scratch mode returns, for every RGB
\* image, an image of the same dimensions in which the luminance of every
\* pixel is floor(0.2989 R + 0.5870 G + 0.1140 B).
C3_ExactFloor ==
    (FromScratch("to_grayscale") /\ IsRGB(Input))
    => /\ last.exc = "none"
       /\ last.ret # None
       /\ heap[last.ret].w = Input.w
       /\ heap[last.ret].h = Input.h
       /\ \A p \in DOMAIN Input.px :
             heap[last.ret].px[p]
               = <<ExactLuma(Input.px[p]), ExactLuma(Input.px[p]),
                   ExactLuma(Input.px[p])>>

\* One luminance value Y for the source pixel: the floor of the weighted
\* sum, except that a sum that is a whole number N >= 1 may come out as
\* N - 1.
LumaOfDouble(pixel, Y) ==
    IF LumaNumerator(pixel) % 10000 = 0 /\ LumaNumerator(pixel) > 0
    THEN Y \in {ExactLuma(pixel) - 1, ExactLuma(pixel)}
    ELSE Y = ExactLuma(pixel)

\* C3 amended: to_grayscale in from-scratch mode returns, for every RGB
\* image, an image of the same dimensions whose pixels are (Y, Y, Y) with
\* Y = floor(0.2989 R + 0.5870 G + 0.1140 B), except where that sum is a
\* whole number N >= 1, where Y is N or N - 1.
C3_FloorOfDouble ==
    (FromScratch("to_grayscale") /\ IsRGB(Input))
    => /\ last.exc = "none"
       /\ last.ret # None
       /\ heap[last.ret].w = Input.w
       /\ heap[last.ret].h = Input.h
       /\ \A p \in DOMAIN Input.px :
             /\ LumaOfDouble(Input.px[p], heap[last.ret].px[p][1])
             /\ heap[last.ret].px[p][2] = heap[last.ret].px[p][1]
             /\ heap[last.ret].px[p][3] = heap[last.ret].px[p][1]

\* The pixel (0, 72, 24), whose weighted sum is exactly 45, has become
\* (44, 44, 44).
C3_Witness ==
    /\ FromScratch("to_grayscale")
    /\ last.exc = "none"
    /\ Input.w = 1 /\ Input.h = 1
    /\ Input.px[<<0, 0>>] = Tinted
    /\ heap[last.ret].px[<<0, 0>>] = <<44, 44, 44>>

\* C4: binary_threshold returns, for every input image (grayscale or RGB)
\* and every threshold T, an image of the same dimensions in which every
\* channel of a pixel is 0 when the source luminance L is below T and 255
\* otherwise (so L = T gives 255).
C4_ThresholdEveryImage ==
    last.op = "binary_threshold"
    => /\ last.exc = "none"
       /\ last.ret # None
       /\ heap[last.ret].w = Input.w
       /\ heap[last.ret].h = Input.h
       /\ \A p \in DOMAIN Input.px :
             \A c \in DOMAIN heap[last.ret].px[p] :
                heap[last.ret].px[p][c]
                  = (IF Input.px[p][1] < last.threshold THEN 0 ELSE 255)

\* C8: every stage, in from-scratch mode, leaves its input image unchanged
\* and returns a new image distinct from its input.
C8_PureStages ==
    (last.op # "none" /\ ~last.fast /\ last.exc = "none" /\ HasPixels(Input))
    => /\ \A i \in 1 .. Len(last.before) : heap[i] = last.before[i]
       /\ last.ret > Len(last.before)

\* What the stages do in from-scratch mode: bilinear_filter and
\* bicubic_filter leave every existing image unchanged and bicubic_filter
\* returns a new image; to_grayscale and binary_threshold overwrite the
\* pixels of the image they are given, touch no other image, create none,
\* and return that same image.
WhoMutates ==
    (last.op # "none" /\ ~last.fast /\ last.exc = "none")
    => /\ last.op \in {"bilinear_filter", "bicubic_filter"}
           => \A i \in 1 .. Len(last.before) : heap[i] = last.before[i]
       /\ last.op = "bicubic_filter"
           => /\ last.ret = Len(last.before) + 1
              /\ Len(heap) = Len(last.before) + 1
       /\ last.op \in {"to_grayscale", "binary_threshold"}
           => /\ last.ret = last.image
              /\ Len(heap) = Len(last.before)
              /\ \A i \in 1 .. Len(last.before) :
                    i # last.image => heap[i] = last.before[i]
              /\ heap[last.image].w = Input.w
              /\ heap[last.image].h = Input.h
              /\ HasPixels(Input) /\ last.op = "to_grayscale"
                    => \A p \in DOMAIN Input.px :
                          heap[last.image].px[p] = GrayPixel(Input.px[p])

InRange(img) ==
    \A p \in DOMAIN img.px : \A c \in DOMAIN img.px[p] : img.px[p][c] \in 0 .. 255

\* C9: every channel value of every image a transform produces (returned,
\* overwritten in place or built locally) is an integer in 0 .. 255.
C9_ChannelsInRange ==
    /\ \A i \in 1 .. Len(heap) : InRange(heap[i])
    /\ \A i \in 1 .. Len(last.local) : InRange(last.local[i])

\* The weighted sum of channel c at destination pixel p, before np.clip.
RawAt(p, c) ==
    BicubicRaw(Input, c, ScaledIter(p[1], last.scale),
               ScaledIter(p[2], last.scale),
               Weights(p[1], last.scale), Weights(p[2], last.scale))

\* bicubic_filter returned an image in which one weighted sum above 255
\* was stored as 255 and one below 0 as 0.
C9_Witness ==
    /\ FromScratch("bicubic_filter")
    /\ last.exc = "none"
    /\ \E p \in DOMAIN heap[last.ret].px, c \in 1 .. 3 :
          FCmp(RawAt(p, c), FInt(255)) > 0 /\ heap[last.ret].px[p][c] = 255
    /\ \E p \in DOMAIN heap[last.ret].px, c \in 1 .. 3 :
          FSign(RawAt(p, c)) < 0 /\ heap[last.ret].px[p][c] = 0

\* C10: a stage given a zero-dimension image, or a resampler given a scale
\* factor <= 0, ends with an error and never returns an image.
C10_RejectsBadInput ==
    (/\ last.op # "none" /\ ~last.fast
     /\ \/ ~HasPixels(Input)
        \/ last.op \in {"bilinear_filter", "bicubic_filter"} /\ ~PositiveScale)
    => last.exc # "none"

----------------------------------------------------------------------------
(* bicubic_filter on an image of one colour (SpecUniform).                 *)

\* A destination index whose four source indexes int(index / scale) - 1 ..
\* int(index / scale) + 2 all lie inside 0 .. size - 1.
InteriorIndex(index, size, scale_factor) ==
    /\ ScaledIter(index, scale_factor) >= 0
    /\ ScaledIter(index, scale_factor) + 3 <= size - 1

Interior(p) ==
    /\ InteriorIndex(p[1], Input.w, last.scale)
    /\ InteriorIndex(p[2], Input.h, last.scale)

IsUniform(img) == \A p \in DOMAIN img.px : img.px[p] = img.px[<<0, 0>>]

UniformCall ==
    /\ FromScratch("bicubic_filter")
    /\ PositiveScale
    /\ HasPixels(Input) /\ IsUniform(Input)

\* C5 as stated: bicubic_filter in from-scratch mode, given an image of
\* the single colour C and any scale factor > 0, returns C at every
\* interior destination pixel.
C5_UniformStaysExact ==
    UniformCall
    => /\ last.exc = "none"
       /\ \A p \in DOMAIN heap[last.ret].px :
             Interior(p) => heap[last.ret].px[p] = Input.px[<<0, 0>>]

\* The scale factors 0.5, 1 and 2.
ExactScales == {FMake(1, 1, -1), FInt(1), FInt(2)}

\* C5 amended: bicubic_filter in from-scratch mode, given an image of the
\* single colour C and a scale factor > 0, returns at every interior
\* destination pixel, in every channel, the channel's value in C or that
\* value minus one; for the scale factors 0.5, 1 and 2 it returns C itself.
C5_UniformWithinOne ==
    UniformCall
    => /\ last.exc = "none"
       /\ \A p \in DOMAIN heap[last.ret].px :
             Interior(p)
             => \A c \in 1 .. 3 :
                   /\ heap[last.ret].px[p][c]
                        \in {Input.px[<<0, 0>>][c] - 1, Input.px[<<0, 0>>][c]}
                   /\ last.scale \in ExactScales
                        => heap[last.ret].px[p][c] = Input.px[<<0, 0>>][c]

\* A white image came back with 254 at an interior pixel.
C5_Witness ==
    /\ UniformCall
    /\ last.exc = "none"
    /\ Input.px[<<0, 0>>] = White
    /\ \E p \in DOMAIN heap[last.ret].px :
          Interior(p) /\ heap[last.ret].px[p] = <<254, 254, 254>>

----------------------------------------------------------------------------
(* Properties of the pipeline (SpecPipeline).                              *)

StageOrder == <<"to_grayscale", "binary_threshold", "bilinear_filter",
                "bicubic_filter">>

\* C1: get_text_from_image(image, fast = False) runs to_grayscale,
\* binary_threshold, bilinear_filter and bicubic_filter in this order, each
\* stage receives the image the stage before it returned, and no stage
\* raises.
C1_FourStagesInOrder ==
    (entry = "direct" /\ pc \in {"raised", "ocr", "respond", "returned"})
    => /\ Len(log) = 4
       /\ \A k \in 1 .. 4 :
             /\ log[k].op = StageOrder[k]
             /\ log[k].exc = "none"
             /\ log[k].arg # None
             /\ k > 1 => log[k].arg = log[k - 1].ret

\* The image a stage returned is w x h with the value v in every channel
\* of every pixel that interior accepts.
AllValue(out, w, h, v, interior(_)) ==
    /\ out # <<>>
    /\ out[1].w = w /\ out[1].h = h
    /\ \A p \in DOMAIN out[1].px :
          interior(p) => \A c \in DOMAIN out[1].px[p] : out[1].px[p][c] = v

Everywhere(p) == TRUE

\* Away from the zero-padded border of the 8 x 8 image enlarged twofold.
Interior16(p) ==
    /\ InteriorIndex(p[1], 2 * ScenarioDim, FInt(2))
    /\ InteriorIndex(p[2], 2 * ScenarioDim, FInt(2))

\* C6: for a 4 x 4 all-white image, in from-scratch mode, to_grayscale
\* gives a 4 x 4 image of 255s, binary_threshold(128) of that a 4 x 4 image
\* of 255s, bilinear_filter(2) of that an 8 x 8 image of 255s, and
\* bicubic_filter(2) of that a 16 x 16 image whose interior pixels are 255.
C6_WhiteEndToEnd ==
    (/\ entry = "scenario" /\ pc \in {"done", "raised"}
     /\ log[1].inp = <<NewImage("RGB", ScenarioDim, ScenarioDim, White)>>)
    => /\ Len(log) = 4
       /\ AllValue(log[1].out, ScenarioDim, ScenarioDim, 255, Everywhere)
       /\ AllValue(log[2].out, ScenarioDim, ScenarioDim, 255, Everywhere)
       /\ AllValue(log[3].out, 2 * ScenarioDim, 2 * ScenarioDim, 255,
                   Everywhere)
       /\ AllValue(log[4].out, 4 * ScenarioDim, 4 * ScenarioDim, 255,
                   Interior16)

\* C7: when response.text cannot be read, get_text_from_image returns the
\* fallback string; what it returns, and what get_speech_from_text is
\* given, is always a string, never None.
C7_AlwaysAString ==
    /\ result.kind = "returned"
         => /\ result.value # "None"
            /\ response # "text" => result.value = Fallback
    /\ speech # "None"

====
